---------------------------- MODULE Spec2Model ----------------------------
(***************************************************************************)
(* The turn-processing core of iron_claw: the Task Manager (single-flight  *)
(* admission, "stop" cancellation, scheduler preemption), the Turn         *)
(* Executor (Router.process_message, the bounded model/tool loop) and the  *)
(* Output Router (Router._send_to_channel / get_output_channel).           *)
(*                                                                         *)
(* The Turn Executor and the channel resolution are translated from        *)
(* src/src/core/ai/router.py.  The admission logic (busy flag, active      *)
(* handle, activeTargets, liveDestinations, grace interval) is what the    *)
(* callers in src/src/core/daemon.py, src/src/core/scheduler/manager.py    *)
(* and src/src/plugins/channels/telegram/plugin.py call into; its body is  *)
(* not part of the sources and is modelled from sections 3, 4.1, 4.4 and 5 *)
(* of the specification.                                                   *)
(***************************************************************************)
EXTENDS Integers, Sequences, FiniteSets, TLC

\* ------------------------------------------------------------------ bounds

\* Number of submit calls of a behaviour.
MaxSubmits == 3

\* Number of turns admitted in a behaviour.
MaxTurns == 2

\* ------------------------------------------------------- program constants

\* router.py:221  max_iterations = 5  (the loop's only budget)
max_iterations == 5

\* ------------------------------------------------------------------ values

None == "none"

\* No turn: the value of an empty handle.
NoTurn == 0

\* No model output has been handed to the parser.
NotParsed == <<"not_parsed">>
NoToolCall == [tool |-> None, args |-> <<>>]

SCHEDULER == "scheduler"
IpcSources == {"ipc_1"}
ChannelSources == {"telegram"}
Sources == IpcSources \cup ChannelSources \cup {SCHEDULER}

STOP == "stop"
UserTexts == {STOP, "hi"}

\* What a submission carries: the scheduler's texts are prefixed instruction
\* lines (never the bare keyword), the Telegram channel passes the chat id.
TextsOf(source) == IF source = SCHEDULER THEN {"job"} ELSE UserTexts
TargetOf(source) == IF source = "telegram" THEN "42" ELSE None

\* Channels registered with the router by Daemon.start.
active_channels == {"console", "telegram"}

\* The classes of outcome of one provider.chat call: a text holding a tool
\* call (for a tool that succeeds, that raises, or that is not enabled), a
\* plain text, the empty string (providers/openai.py:53 returns "" for an
\* empty content), or a RuntimeError.
ToolResponses == {"tool_ok", "tool_raise", "tool_missing"}
TextResponses == {"text", "empty"}
PROVIDER_ERROR == "provider_error"
Responses == ToolResponses \cup TextResponses \cup {PROVIDER_ERROR}

VARIABLES
    busy,               \* Session State: a turn holds the slot
    handle,             \* Session State: activeTurnHandle (a turn id or NoTurn)
    activeTargets,      \* Session State: source -> last-seen target
    liveDestinations,   \* Session State: IPC sources with an open connection
    grace,              \* scheduler submissions waiting out the grace interval
    subs,               \* the submit calls made so far, in order
    turns,              \* the turns admitted so far, in order (id = index)
    history,            \* ContextManager.history, the context list
    last_channel_name,  \* Router.last_channel_name
    outbox,             \* every text handed to a destination, in order
    assistant_response, \* the model output last handed to the parser
    tool_call,          \* what _parse_tool_call returned for it
    tasks,              \* the reminder tables: table -> id -> row
    loops,              \* the reminder loop and the scheduler plugin's loop
    event,              \* one call of Router.handle_scheduled_event
    daemon,             \* Daemon: shutdown event, running_tasks, loops
    launcher,           \* `start --daemon`: parent, child and the PID file
    splitter,           \* one call of TelegramChannel._send_text_async
    context             \* ContextManager: messages, history and the limit

\* The variables of the tool-call parser's caller.
parserVars == <<assistant_response, tool_call>>

\* The variables of the services around the session.
serviceVars == <<tasks, loops, event, daemon, launcher, splitter, context>>

\* The variables of the session and of the turn it runs.
sessionVars == <<busy, handle, activeTargets, liveDestinations, grace, subs,
                 turns, history, last_channel_name, outbox>>

vars == <<busy, handle, activeTargets, liveDestinations, grace, subs, turns,
          history, last_channel_name, outbox, assistant_response, tool_call,
          tasks, loops, event, daemon, launcher, splitter, context>>

\* ------------------------------------------------------------ Output Router

\* The .env key TELEGRAM_ADMIN_ID read by get_output_channel for a channel
\* named telegram_bot; the daemon registers no channel of that name.
admin_id == None

\* router.py:133-144.  The preferred channel: an enabled telegram_bot with
\* an admin id, else the console channel, else nothing.
get_preferred_output_channel ==
    IF "telegram_bot" \in active_channels /\ admin_id # None
      THEN [dest |-> "telegram_bot", target |-> admin_id]
      ELSE IF "console" \in active_channels
             THEN [dest |-> "console", target |-> None]
             ELSE [dest |-> None, target |-> None]

\* router.py:113-131.  The channel registered under the source's name (the
\* last used channel when no source is given), else the preferred channel.
get_output_channel(source) ==
    LET target_channel_name ==
            IF source # None THEN source ELSE last_channel_name
    IN  IF target_channel_name # None /\ target_channel_name \in active_channels
          THEN IF target_channel_name = "telegram_bot"
                 THEN IF admin_id # None
                        THEN [dest |-> target_channel_name, target |-> admin_id]
                        ELSE get_preferred_output_channel
                 ELSE [dest |-> target_channel_name, target |-> None]
          ELSE get_preferred_output_channel

\* Specification 4.4, scheduler source: every entry of activeTargets through
\* the channel registered under its source, and every open IPC destination;
\* the default channel when nothing was reachable.
BroadcastDestinations(targets, live) ==
    LET chans == {[dest |-> s, target |-> targets[s]] :
                     s \in (DOMAIN targets) \cap active_channels}
        ipcs  == {[dest |-> c, target |-> None] : c \in live}
    IN  IF chans \cup ipcs = {}
          THEN {get_preferred_output_channel}
          ELSE chans \cup ipcs

\* Specification 4.4: where a text for `source` goes.  An open IPC
\* connection is written directly; a named source is resolved by
\* get_output_channel.
Destinations(source, targets, live) ==
    IF source = SCHEDULER
      THEN BroadcastDestinations(targets, live)
      ELSE IF source \in live
             THEN {[dest |-> source, target |-> None]}
             ELSE {get_output_channel(source)}

\* router.py:191-207, _send_to_channel: one text handed to the destinations
\* of `source`.  kind is what the text is, turn the turn it belongs to (0
\* for none), sub the submit call it answers (0 for none), body the class of
\* its text.
Sent(kind, body, source, turn, sub, targets, live) ==
    [kind |-> kind, body |-> body, source |-> source, turn |-> turn,
     sub |-> sub, via |-> "router",
     to |-> Destinations(source, targets, live),
     reached |-> Destinations(source, targets, live),
     fallback |-> FALSE, live |-> live]

\* telegram/plugin.py:111-113: the Telegram channel's own error reply, sent
\* with _send_text_async to the chat the message came from.
SentByChannel(kind, source, turn, sub) ==
    [kind |-> kind, body |-> "notice", source |-> source, turn |-> turn,
     sub |-> sub, via |-> "channel",
     to |-> {[dest |-> source, target |-> TargetOf(source)]},
     reached |-> {[dest |-> source, target |-> TargetOf(source)]},
     fallback |-> FALSE, live |-> {}]

\* ------------------------------------------------------------- Task Manager

TurnIds == 1..Len(turns)

\* A turn is in flight from its admission until it has ended.
InFlight == {t \in TurnIds : turns[t].pc # "done"}

\* Specification 3, Turn: the record created at admission; the counters are
\* reset per turn.
NewTurn(source, text, sub) ==
    [source |-> source, text |-> text, sub |-> sub, pc |-> "launched",
     iter |-> 0, errors |-> 0, modelCalls |-> 0, toolExecs |-> 0,
     notes |-> 0, cancelReq |-> FALSE, end |-> None,
     target |-> TargetOf(source)]

\* The admission test had the busy mark been left to the launched turn: a
\* turn that has not begun to run does not count.
SessionIdle_UntilBegun == \A t \in InFlight : turns[t].pc = "launched"

\* Specification 4.1: the admission test of submit.
SessionIdle == ~busy

\* The target had it been recorded for a source only when none was known.
record_target_FirstSeen(targets, source, target) ==
    IF target # None /\ source \notin DOMAIN targets
      THEN [x \in (DOMAIN targets) \cup {source} |->
               IF x = source THEN target ELSE targets[x]]
      ELSE targets

\* Specification 3 and 4.1: record `target` into activeTargets[source] if
\* present; the last write wins.
record_target(targets, source, target) ==
    IF target # None
      THEN [x \in (DOMAIN targets) \cup {source} |->
               IF x = source THEN target ELSE targets[x]]
      ELSE targets

\* Specification 4.1: a turn is admitted for submit(source, target, text):
\* mark busy, create the Turn, keep its handle, record the target when one
\* is given.
AdmittedTo(source, target, text, sub) ==
    /\ busy' = TRUE
    /\ turns' = Append(turns, [NewTurn(source, text, sub) EXCEPT
                                  !.target = target])
    /\ handle' = Len(turns) + 1
    /\ activeTargets' = record_target(activeTargets, source, target)

\* The admission of a submission that carries its source's usual target.
Admitted(source, text, sub) ==
    AdmittedTo(source, TargetOf(source), text, sub)

\* The live destinations had they been rebuilt from the caller alone.
LiveWith_CallerOnly(source) ==
    IF source \in IpcSources THEN {source} ELSE {}

\* daemon.py:23-31: every IPC line is submitted with the connection's
\* writer, which becomes the source's live destination.
LiveWith(source) ==
    IF source \in IpcSources THEN liveDestinations \cup {source}
                             ELSE liveDestinations

\* Specification 4.1: cancellation is requested of the turn the handle
\* refers to; a turn that has ended is not affected.
RequestCancel(ts, h) ==
    IF h # NoTurn /\ ts[h].pc # "done"
      THEN [ts EXCEPT ![h].cancelReq = TRUE]
      ELSE ts

\* Turns left to admit, those promised to waiting scheduler submissions
\* counted.
CanAdmit == Len(turns) + Cardinality(grace) < MaxTurns

\* submit(source, target, text), session idle: the turn is admitted at once.
SubmitIdleTo(source, target, text) ==
    /\ Len(subs) < MaxSubmits
    /\ CanAdmit
    /\ SessionIdle
    /\ AdmittedTo(source, target, text, Len(subs) + 1)
    /\ liveDestinations' = LiveWith(source)
    /\ subs' = Append(subs, [source |-> source, text |-> text,
                             fate |-> "admitted", turn |-> Len(turns) + 1])
    /\ UNCHANGED <<grace, history, last_channel_name, outbox>>
    /\ UNCHANGED parserVars
    /\ UNCHANGED serviceVars

\* submit, session idle, with the source's usual target.
SubmitIdle(source, text) == SubmitIdleTo(source, TargetOf(source), text)

\* submit, busy, the text is the cancellation keyword: cancel the active
\* turn, admit nothing.
SubmitStop(source, text) ==
    /\ Len(subs) < MaxSubmits
    /\ ~SessionIdle
    /\ text = STOP
    /\ turns' = RequestCancel(turns, handle)
    /\ liveDestinations' = LiveWith(source)
    /\ subs' = Append(subs, [source |-> source, text |-> text,
                             fate |-> "stop",
                             turn |-> handle])
    /\ UNCHANGED <<busy, handle, activeTargets, grace, history,
                   last_channel_name, outbox>>
    /\ UNCHANGED parserVars
    /\ UNCHANGED serviceVars

\* submit, busy, scheduler source: cancel the active turn and start waiting
\* the grace interval.
SubmitScheduler(source, text) ==
    /\ Len(subs) < MaxSubmits
    /\ CanAdmit
    /\ ~SessionIdle
    /\ text # STOP
    /\ source = SCHEDULER
    /\ turns' = RequestCancel(turns, handle)
    /\ grace' = grace \cup {Len(subs) + 1}
    /\ subs' = Append(subs, [source |-> source, text |-> text,
                             fate |-> "preempt", turn |-> 0])
    /\ UNCHANGED <<busy, handle, activeTargets, liveDestinations, history,
                   last_channel_name, outbox>>
    /\ UNCHANGED parserVars
    /\ UNCHANGED serviceVars

\* The busy notice had it been sent like the turn's other texts, to the
\* source of the active turn.
BusyNoticeSource_ActiveTurn(source) == turns[handle].source

\* The source the busy notice is addressed to: the caller's.
BusyNoticeSource(source) == source

\* submit, busy, neither of the above: reject with the busy notice.
SubmitBusy(source, text) ==
    /\ Len(subs) < MaxSubmits
    /\ ~SessionIdle
    /\ text # STOP
    /\ source # SCHEDULER
    /\ liveDestinations' = LiveWith(source)
    /\ outbox' = Append(outbox, Sent("busy", "notice",
                                     BusyNoticeSource(source), 0,
                                     Len(subs) + 1, activeTargets,
                                     LiveWith(source)))
    /\ subs' = Append(subs, [source |-> source, text |-> text,
                             fate |-> "busy", turn |-> 0])
    /\ UNCHANGED <<busy, handle, activeTargets, grace, turns, history,
                   last_channel_name>>
    /\ UNCHANGED parserVars
    /\ UNCHANGED serviceVars

\* The wait had it been a wait for the old turn to release the slot.
GraceOver_WhenReleased(s) == ~busy

\* Whether the grace interval of a waiting scheduler submission may end:
\* it ends after a fixed time, whatever the old turn has done.
GraceOver(s) == TRUE

\* The grace interval of scheduler submission s is over: its turn is
\* admitted whether or not the old turn has unwound.
GraceExpire(s) ==
    /\ s \in grace
    /\ GraceOver(s)
    /\ grace' = grace \ {s}
    /\ Admitted(subs[s].source, subs[s].text, s)
    /\ subs' = [subs EXCEPT ![s].turn = Len(turns) + 1]
    /\ UNCHANGED <<liveDestinations, history, last_channel_name, outbox>>
    /\ UNCHANGED parserVars
    /\ UNCHANGED serviceVars

\* ------------------------------------------------------------ Turn Executor

Entry(role, kind, t) == [role |-> role, kind |-> kind, turn |-> t]

\* context_manager.py:16: the fixed limit of the long-term history.
max_history_limit == 100

\* context_manager.py:70-73: the list keeps its last max_history_limit
\* entries.
enforce_limit(h) ==
    IF Len(h) > max_history_limit
      THEN SubSeq(h, Len(h) - max_history_limit + 1, Len(h))
      ELSE h

\* add_message had it put the new entry at the head of the list.
add_message_AtHead(h, role, kind, t) ==
    enforce_limit(<<Entry(role, kind, t)>> \o h)

\* context_manager.py:55-76, ContextManager.add_message on the history.
add_message(h, role, kind, t) == enforce_limit(Append(h, Entry(role, kind, t)))

\* router.py:260-283 as the loop uses it: whether the model's output holds
\* a tool call.
IsToolCall(r) == r \in ToolResponses

\* The loop had it run one iteration more than range(max_iterations).
LoopContinues_Inclusive(i) == i <= max_iterations

\* router.py:222, for i in range(max_iterations): whether the loop has an
\* iteration left after i iterations.
LoopContinues(i) == i < max_iterations

\* Specification 3, Turn lifecycle: the Turn is discarded when it completes,
\* is cancelled or fails; what is kept is how it ended.
Ended(tr, end) ==
    [tr EXCEPT !.pc = "done", !.end = end, !.iter = 0, !.errors = 0,
               !.modelCalls = 0, !.toolExecs = 0, !.notes = 0,
               !.cancelReq = FALSE]

\* The release had it been written at the end of the happy path only.
Releases_OnFinalOnly(end) == end = "final"

\* Specification 4.1: the slot is released on every kind of turn
\* completion.
Releases(end) == TRUE

Release(end) ==
    IF Releases(end)
      THEN busy' = FALSE /\ handle' = NoTurn
      ELSE UNCHANGED <<busy, handle>>

\* router.py:214-229: the launched turn runs up to its first model call.
TurnBegin(t) ==
    /\ t \in TurnIds
    /\ turns[t].pc = "launched"
    /\ last_channel_name' = turns[t].source
    /\ history' = add_message(history, "user", "input", t)
    /\ turns' = [turns EXCEPT ![t].pc = "awaiting", ![t].modelCalls = 1]
    /\ UNCHANGED <<busy, handle, activeTargets, liveDestinations, grace,
                   subs, outbox>>
    /\ UNCHANGED parserVars
    /\ UNCHANGED serviceVars

\* The class of a delivered model output.
BodyOf(r) ==
    IF r = "empty" THEN "empty"
    ELSE IF IsToolCall(r) THEN "tool_call" ELSE "text"

\* provider.chat raised: process_message has no handler, the exception
\* leaves the Turn Executor.  Of the callers only the Telegram channel
\* answers it (telegram/plugin.py:111-113).
ProviderFailed(t) ==
    /\ turns' = [turns EXCEPT ![t] = Ended(turns[t], "provider_error")]
    /\ outbox' = IF turns[t].source \in ChannelSources
                   THEN Append(outbox, SentByChannel("provider_error",
                                                     turns[t].source, t,
                                                     turns[t].sub))
                   ELSE outbox
    /\ Release("provider_error")
    /\ UNCHANGED history

\* router.py:225-246 and 248-256: what one iteration of the loop does with
\* the outcome r of its model call.
LoopBody(t, r) ==
    /\ t \in TurnIds
    /\ turns[t].pc = "awaiting"
    /\ ~turns[t].cancelReq
    /\ LET tr == turns[t]
           i1 == tr.iter + 1
           h1 == add_message(add_message(history, "assistant", "tool_call", t),
                             "user", "tool_result", t)
       IN  IF r = PROVIDER_ERROR
             THEN ProviderFailed(t)
           ELSE IF IsToolCall(r)
             THEN /\ history' = IF LoopContinues(i1)
                                  THEN h1
                                  ELSE add_message(h1, "user", "note", t)
                  /\ turns' = [turns EXCEPT ![t] =
                        [tr EXCEPT !.iter = i1,
                                   !.toolExecs = @ + (IF r = "tool_missing"
                                                        THEN 0 ELSE 1),
                                   !.errors = @ + (IF r = "tool_raise"
                                                     THEN 1 ELSE 0),
                                   !.modelCalls = @ + 1,
                                   !.notes = IF LoopContinues(i1)
                                               THEN @ ELSE @ + 1,
                                   !.pc = IF LoopContinues(i1)
                                            THEN "awaiting"
                                            ELSE "awaiting_final"]]
                  /\ UNCHANGED <<busy, handle, outbox>>
           ELSE /\ history' = add_message(history, "assistant", "final", t)
                /\ outbox' = Append(outbox,
                                Sent("final", BodyOf(r), tr.source, t, tr.sub,
                                     activeTargets, liveDestinations))
                /\ turns' = [turns EXCEPT ![t] = Ended(tr, "final")]
                /\ Release("final")
    /\ UNCHANGED <<activeTargets, liveDestinations, grace, subs,
                   last_channel_name>>

\* The model call of a loop iteration returns; the turn runs on to its next
\* model call or to its end.
ModelReturns(t, r) ==
    LoopBody(t, r) /\ UNCHANGED parserVars /\ UNCHANGED serviceVars

\* router.py:252-257: the model call after the note returns; its output is
\* sent as it is.
ForcedReturns(t, r) ==
    /\ t \in TurnIds
    /\ turns[t].pc = "awaiting_final"
    /\ ~turns[t].cancelReq
    /\ IF r = PROVIDER_ERROR
         THEN ProviderFailed(t)
         ELSE /\ outbox' = Append(outbox,
                              Sent("final", BodyOf(r), turns[t].source, t,
                                   turns[t].sub, activeTargets,
                                   liveDestinations))
              /\ turns' = [turns EXCEPT ![t] = Ended(turns[t], "final")]
              /\ Release("final")
              /\ UNCHANGED history
    /\ UNCHANGED <<activeTargets, liveDestinations, grace, subs,
                   last_channel_name>>
    /\ UNCHANGED parserVars
    /\ UNCHANGED serviceVars

\* Cancellation had it been delivered wherever the turn is, a turn that has
\* not begun to run included.
SuspensionPoints_Anywhere == {"launched", "awaiting", "awaiting_final"}

\* Specification 4.2, cancellation semantics: where a turn can observe its
\* cancellation: waiting for the model call of an iteration or for the one
\* after the note.
SuspensionPoints == {"awaiting", "awaiting_final"}

\* The source of the submission that asked for turn t's cancellation (the
\* turn's own when none did).
CancellerSource(t) ==
    IF \E s \in 1..Len(subs) : subs[s].fate = "stop" /\ subs[s].turn = t
      THEN subs[CHOOSE s \in 1..Len(subs) :
                   subs[s].fate = "stop" /\ subs[s].turn = t].source
      ELSE turns[t].source

\* Specification 4.1: the interrupted notice goes to the cancelled turn's
\* own source.
InterruptedNoticeSource(t) == turns[t].source

\* Specification 4.2, cancellation: a turn waiting at its suspension point
\* whose cancellation was requested unwinds; the Task Manager's cleanup
\* sends the notice to the turn's source and releases the slot.
TurnCancelled(t) ==
    /\ t \in TurnIds
    /\ turns[t].pc \in SuspensionPoints
    /\ turns[t].cancelReq
    /\ turns' = [turns EXCEPT ![t] = Ended(turns[t], "cancelled")]
    /\ outbox' = Append(outbox,
                    Sent("interrupted", "notice", InterruptedNoticeSource(t), t,
                         turns[t].sub, activeTargets, liveDestinations))
    /\ Release("cancelled")
    /\ UNCHANGED <<activeTargets, liveDestinations, grace, subs, history,
                   last_channel_name>>
    /\ UNCHANGED parserVars
    /\ UNCHANGED serviceVars

\* ------------------------------------------------- services around the session

\* The reminders each table holds.
MaxReminders == 2

\* The table tasks of the core scheduler (core/scheduler.db) and the one of
\* the schedule_manager plugin (its own storage.db).
Tables == {"core", "plugin"}

\* context_manager.py:21-30: the limit of the short-term context when the
\* configuration names none.
DefaultLimit == 20

\* The services at rest.  add_task has inserted the reminders with the
\* default status 'pending' and a schedule still to come; the reminder loop
\* and the plugin's scheduler loop are before their first poll; no
\* scheduled event is being handled; the daemon has not been started; no
\* `start --daemon` has been run; no text is being sent to Telegram; no
\* ContextManager has been constructed.
ServicesIdle ==
    /\ tasks = [T \in Tables |-> [id \in 1..MaxReminders |->
                   [status |-> "pending", due |-> FALSE]]]
    /\ loops = [T \in Tables |->
                   [pc |-> "sleeping", due_tasks |-> <<>>, mark |-> 0]]
    /\ event = [pc |-> "idle", i |-> 0, response_text |-> "empty",
                messages |-> <<>>, sent |-> None]
    /\ daemon = [shutdown_event |-> FALSE, main |-> "idle",
                 running_tasks |-> [x \in {} |-> None]]
    /\ launcher = [pid_file |-> "absent", parent |-> "idle",
                   child |-> "unspawned", seen |-> "absent"]
    /\ splitter = [pc |-> "idle", fn |-> "_send_text_async", text |-> <<>>,
                   parts |-> <<>>]
    /\ context = [max_messages_limit |-> DefaultLimit, messages |-> <<>>,
                  adds |-> 0, last |-> "unloaded"]

\* ------------------------------------------------------------ specification

Init ==
    /\ busy = FALSE
    /\ handle = NoTurn
    /\ activeTargets = [x \in {} |-> None]
    /\ liveDestinations = {}
    /\ grace = {}
    /\ subs = <<>>
    /\ turns = <<>>
    /\ history = <<>>
    /\ last_channel_name = None
    /\ outbox = <<>>
    /\ assistant_response = NotParsed
    /\ tool_call = NoToolCall
    /\ ServicesIdle

Next ==
    \/ \E source \in Sources : \E text \in TextsOf(source) :
          SubmitIdle(source, text)
    \/ \E source \in Sources : \E text \in TextsOf(source) :
          SubmitStop(source, text)
    \/ \E source \in Sources : \E text \in TextsOf(source) :
          SubmitScheduler(source, text)
    \/ \E source \in Sources : \E text \in TextsOf(source) :
          SubmitBusy(source, text)
    \/ \E s \in 1..MaxSubmits : GraceExpire(s)
    \/ \E t \in 1..MaxTurns : TurnBegin(t)
    \/ \E t \in 1..MaxTurns : \E r \in Responses : ModelReturns(t, r)
    \/ \E t \in 1..MaxTurns : \E r \in Responses : ForcedReturns(t, r)
    \/ \E t \in 1..MaxTurns : TurnCancelled(t)

Spec == Init /\ [][Next]_vars

\* The event loop's fairness: a timer that was set fires (the grace
\* interval ends) and a task that was created gets to run (the launched turn
\* begins).  Nothing makes a model call return or a waiting turn resume.
FairSpec ==
    /\ Spec
    /\ \A s \in 1..MaxSubmits : WF_vars(GraceExpire(s))
    /\ \A t \in 1..MaxTurns : WF_vars(TurnBegin(t))

\* ------------------------------------- Output Router with failing deliveries

\* Number of texts delivered in a behaviour of RouterSpec.
MaxDeliveries == 2

\* Open connections and sources a submission may have come from: a second
\* IPC connection, and a named source no channel is registered for.
IpcConnections == IpcSources \cup {"ipc_2"}
UNREGISTERED == "webhook"
DeliverSources ==
    {SCHEDULER, UNREGISTERED} \cup IpcSources \cup active_channels

\* The targets last seen per source: none for the console, the chat id for
\* Telegram.
LastTargetOf(source) ==
    IF source = "console" THEN None
    ELSE IF source = UNREGISTERED THEN "7" ELSE TargetOf(source)

TargetMaps ==
    {[x \in D |-> LastTargetOf(x)] :
        D \in SUBSET (active_channels \cup {UNREGISTERED})}

\* The destinations whose send_message or write may raise.
FailableDests == active_channels \cup IpcConnections

\* Broadcast had it called every channel without the entry's target.
ChannelAttempts_NoTarget(targets) ==
    {[dest |-> s, target |-> None] : s \in (DOMAIN targets) \cap active_channels}

\* Specification 4.4, broadcast: one deliver(text, target) per entry of
\* activeTargets whose source has a registered channel.
ChannelAttempts(targets) ==
    {[dest |-> s, target |-> targets[s]] :
        s \in (DOMAIN targets) \cap active_channels}

\* Specification 4.4, broadcast: one write per open IPC destination.
IpcAttempts(live) == {[dest |-> c, target |-> None] : c \in live}

\* The direct write had it been skipped: everything through the channels.
DirectWrite_Never(source, live) == {}

\* Specification 4.4, interactive/IPC source: the direct write to the
\* source's open connection.
DirectWrite(source, live) ==
    IF source \in live THEN {[dest |-> source, target |-> None]} ELSE {}

\* router.py:195-199: no channel instance, nothing to send to.
NoChannel == [dest |-> None, target |-> None]

\* The pruning had it been left out.
Pruned_Nothing(live, tried, fails) == live

\* Specification 4.4: an IPC destination whose write failed is removed.
Pruned(live, tried, fails) ==
    live \ {c \in live : c \in fails /\ \E d \in tried : d.dest = c}

\* The second round had it been left out: nothing after the first failures.
NeedsResolution_Never(first, fails) == FALSE

\* Specification 4.4: channel resolution (the default channel for a
\* broadcast) is used when no destination before it was reached.
NeedsResolution(first, fails) == \A d \in first : d.dest \in fails

\* Specification 4.4 over router.py:191-207: one deliver(text, source) with
\* the destinations in `fails` raising.  to: every destination tried;
\* reached: those that took the text; live: the connections left open.
send_to_channel(source, targets, live, fails) ==
    LET first == IF source = SCHEDULER
                   THEN ChannelAttempts(targets) \cup IpcAttempts(live)
                   ELSE DirectWrite(source, live)
        resolved == IF source = SCHEDULER
                      THEN get_preferred_output_channel
                      ELSE get_output_channel(source)
        second == IF NeedsResolution(first, fails)
                    THEN {resolved} \ {NoChannel}
                    ELSE {}
        tried == first \cup second
    IN  [to |-> tried,
         reached |-> {d \in tried : d.dest \notin fails},
         fallback |-> second # {},
         live |-> Pruned(live, first, fails)]

\* A failed send_message had its exception not been caught.
Propagates_WhenFailed(d) == d.reached # d.to

\* router.py:203-207: the exception of a failed send_message is caught and
\* printed; nothing leaves _send_to_channel.
Propagates(d) == FALSE

\* One text of the running turn is delivered for `source`; the destinations
\* in `fails` fail.
SendToChannel(source, fails) ==
    /\ Len(outbox) < MaxDeliveries
    /\ handle \in InFlight
    /\ LET d == send_to_channel(source, activeTargets, liveDestinations, fails)
       IN  /\ outbox' = Append(outbox,
                  [kind |-> "progress", body |-> "text", source |-> source,
                   turn |-> handle, sub |-> turns[handle].sub,
                   via |-> "router", to |-> d.to, reached |-> d.reached,
                   fallback |-> d.fallback, live |-> liveDestinations])
           /\ liveDestinations' = d.live
           /\ IF Propagates(d)
                THEN /\ turns' = [turns EXCEPT ![handle] =
                                     Ended(turns[handle], "exception")]
                     /\ Release("exception")
                ELSE UNCHANGED <<turns, busy, handle>>
    /\ UNCHANGED <<activeTargets, grace, subs, history, last_channel_name>>
    /\ UNCHANGED parserVars
    /\ UNCHANGED serviceVars

\* A turn is running, at its model call; the session state is any the
\* earlier submissions may have left.
RouterInit ==
    /\ busy = TRUE
    /\ handle = 1
    /\ \E source \in Sources : \E text \in TextsOf(source) :
          /\ turns = <<[NewTurn(source, text, 1) EXCEPT
                           !.pc = "awaiting", !.modelCalls = 1]>>
          /\ subs = <<[source |-> source, text |-> text,
                       fate |-> "admitted", turn |-> 1]>>
          /\ last_channel_name = source
          /\ activeTargets \in {m \in TargetMaps :
                TargetOf(source) # None => source \in DOMAIN m}
          /\ liveDestinations \in {l \in SUBSET IpcConnections :
                source \in IpcSources => source \in l}
    /\ grace = {}
    /\ history = <<Entry("user", "input", 1)>>
    /\ outbox = <<>>
    /\ assistant_response = NotParsed
    /\ tool_call = NoToolCall
    /\ ServicesIdle

RouterNext ==
    \E source \in DeliverSources : \E fails \in SUBSET FailableDests :
        SendToChannel(source, fails)

RouterSpec == RouterInit /\ [][RouterNext]_vars

\* ---------------------------------------------------------- Tool-Call Parser

\* Length of the model outputs enumerated in full.
MaxTextLen == 4

\* A model output as a sequence of lexical pieces: an opening and a closing
\* brace, the member "tool":"x", a first key "k": and a following key
\* ,"args": (each needing an object as its value), white space, a code
\* fence, and a word of prose.
LB == "{"
RB == "}"
TOOL == "tool:x"
KEY == "k:"
ARGS == ",args:"
SP == "space"
FENCE == "fence"
WORD == "word"
Tokens == {LB, RB, TOOL, KEY, ARGS, SP, FENCE, WORD}

\* Longer outputs: the fenced tool call of the specification's example, an
\* object whose only member holds a tool call, prose with braces before a
\* tool call, and a tool call cut short.
FencedExample == <<FENCE, LB, TOOL, ARGS, LB, RB, RB, FENCE>>
NestedExample == <<LB, KEY, LB, TOOL, RB, RB>>
ProseExample == <<WORD, LB, WORD, RB, SP, LB, TOOL, RB>>
TruncatedExample == <<LB, TOOL, ARGS, LB, RB>>
ModelTexts ==
    UNION {[1..n -> Tokens] : n \in 0..MaxTextLen}
        \cup {FencedExample, NestedExample, ProseExample, TruncatedExample}

At(txt, i) == IF i \in 1..Len(txt) THEN txt[i] ELSE "eof"

\* The first index from i on that holds no white space.
RECURSIVE SkipSp(_, _)
SkipSp(txt, i) == IF At(txt, i) = SP THEN SkipSp(txt, i + 1) ELSE i

\* json.loads on an object: the index of the brace that closes the object
\* opened at i, or 0 when what starts at i is not a valid object.
RECURSIVE ObjectEnd(_, _), MembersEnd(_, _, _)
ObjectEnd(txt, i) ==
    IF At(txt, i) # LB
      THEN 0
      ELSE LET j == SkipSp(txt, i + 1)
           IN  IF At(txt, j) = RB THEN j ELSE MembersEnd(txt, j, TRUE)

MembersEnd(txt, j, first) ==
    LET tok == At(txt, j)
        after ==
            IF first /\ tok = TOOL
              THEN SkipSp(txt, j + 1)
            ELSE IF (first /\ tok = KEY) \/ (~first /\ tok = ARGS)
              THEN LET e == ObjectEnd(txt, SkipSp(txt, j + 1))
                   IN  IF e = 0 THEN 0 ELSE SkipSp(txt, e + 1)
            ELSE 0
    IN  IF after = 0 THEN 0
        ELSE IF At(txt, after) = RB THEN after
        ELSE MembersEnd(txt, after, FALSE)

\* Whether json.loads(str) returns (a dict) rather than raises.
json_loads_ok(str) == str # <<>> /\ ObjectEnd(str, 1) = Len(str)

\* Braces opened and not closed before index i.
Depth(str, i) ==
    Cardinality({k \in 1..(i - 1) : str[k] = LB})
        - Cardinality({k \in 1..(i - 1) : str[k] = RB})

\* The members of the object itself, not of an object inside it.
TopLevel(str, tok) == {i \in 1..Len(str) : str[i] = tok /\ Depth(str, i) = 1}

Max(S) == CHOOSE x \in S : \A y \in S : y <= x
Min(S) == CHOOSE x \in S : \A y \in S : x <= y

\* dict.get("args", {}) of a parsed object: the value of its last "args"
\* member without the white space, the empty map when it has none.
ArgsOf(str) ==
    IF TopLevel(str, ARGS) = {}
      THEN <<LB, RB>>
      ELSE LET v == SkipSp(str, Max(TopLevel(str, ARGS)) + 1)
           IN  SelectSeq(SubSeq(str, v, ObjectEnd(str, v)),
                         LAMBDA c : c # SP)

ToolCallOf(str) == [tool |-> "x", args |-> ArgsOf(str)]

\* router.py:260-283, _parse_tool_call: the object that starts at the
\* first {"tool": and ends at the brace that balances it, when json.loads
\* accepts it; None otherwise, json.loads' exception included.
parse_tool_call(text) ==
    LET starts == {i \in 1..Len(text) : text[i] = LB /\ At(text, i + 1) = TOOL}
    IN  IF starts = {}
          THEN NoToolCall
          ELSE LET start_idx == Min(starts)
                   ends == {j \in start_idx..Len(text) :
                               Depth(text, j + 1) = Depth(text, start_idx)}
               IN  IF ends = {}
                     THEN NoToolCall
                     ELSE LET json_str == SubSeq(text, start_idx, Min(ends))
                          IN  IF json_loads_ok(json_str)
                                THEN ToolCallOf(json_str)
                                ELSE NoToolCall

\* Specification 4.3, parse: inside the first fenced block when there is
\* one, from the first { to the last }, a tool call when that is an object
\* with a tool key.
ReferenceParse(text) ==
    LET fences == {i \in 1..Len(text) : text[i] = FENCE}
        working == IF Cardinality(fences) >= 2
                     THEN SubSeq(text, Min(fences) + 1,
                                 Min(fences \ {Min(fences)}) - 1)
                     ELSE text
        opens == {i \in 1..Len(working) : working[i] = LB}
        closes == {i \in 1..Len(working) : working[i] = RB}
    IN  IF opens = {} \/ closes = {} \/ Max(closes) < Min(opens)
          THEN NoToolCall
          ELSE LET str == SubSeq(working, Min(opens), Max(closes))
               IN  IF json_loads_ok(str) /\ TopLevel(str, TOOL) # {}
                     THEN ToolCallOf(str)
                     ELSE NoToolCall

\* router.py:231-246: what the loop makes of a model output: a tool call
\* (whose tool succeeds, raises or is missing) when the parser returns
\* one, a final answer otherwise.
ClassOf(text, outcome) ==
    IF parse_tool_call(text) # NoToolCall THEN outcome
    ELSE IF text = <<>> THEN "empty" ELSE "text"

\* The model call of the turn's first iteration returns `text`.
ModelOutputs(t, text, outcome) ==
    /\ assistant_response = NotParsed
    /\ assistant_response' = text
    /\ tool_call' = parse_tool_call(text)
    /\ LoopBody(t, ClassOf(text, outcome))
    /\ UNCHANGED serviceVars

\* A turn of an IPC client is at its first model call.
ParserInit ==
    /\ busy = TRUE
    /\ handle = 1
    /\ turns = <<[NewTurn("ipc_1", "hi", 1) EXCEPT
                     !.pc = "awaiting", !.modelCalls = 1]>>
    /\ subs = <<[source |-> "ipc_1", text |-> "hi",
                 fate |-> "admitted", turn |-> 1]>>
    /\ last_channel_name = "ipc_1"
    /\ activeTargets = [x \in {} |-> None]
    /\ liveDestinations = {"ipc_1"}
    /\ grace = {}
    /\ history = <<Entry("user", "input", 1)>>
    /\ outbox = <<>>
    /\ assistant_response = NotParsed
    /\ tool_call = NoToolCall
    /\ ServicesIdle

ParserNext ==
    \E text \in ModelTexts : \E outcome \in ToolResponses :
        ModelOutputs(1, text, outcome)

ParserSpec == ParserInit /\ [][ParserNext]_vars

\* --------------------------------------------------- Targets of submissions

\* The sources of TargetSpec and the targets their submissions carry: the
\* Telegram channel passes the id of the chat a message came from, an IPC
\* line and a scheduler job carry none.
TargetSources == {"telegram", "ipc_1", SCHEDULER}
TargetsFrom(source) == IF source = "telegram" THEN {"42", "43"} ELSE {None}

\* Submissions with any of their source's targets, answered at once by the
\* model with a final text.
TargetNext ==
    \/ \E source \in TargetSources : \E target \in TargetsFrom(source) :
          SubmitIdleTo(source, target, "hi")
    \/ \E source \in TargetSources \ {SCHEDULER} : SubmitBusy(source, "hi")
    \/ \E t \in 1..MaxTurns : TurnBegin(t)
    \/ \E t \in 1..MaxTurns : \E r \in {"text", "tool_ok"} : ModelReturns(t, r)
    \/ \E t \in 1..MaxTurns : ForcedReturns(t, "text")

TargetSpec == Init /\ [][TargetNext]_vars

\* ------------------------------------------------- Context with stored entries

\* How far below max_history_limit the stored context of HistorySpec starts.
Headroom == 2

\* context_manager.py:19: the history loaded from the history file, n
\* entries of earlier turns, user and assistant in turn.
Stored(n) ==
    [i \in 1..n |-> Entry(IF i % 2 = 1 THEN "user" ELSE "assistant",
                          "stored", 0)]

\* The numbers of entries the file may hold: none, or up to Headroom fewer
\* than the limit add_message keeps it to.
StoredLengths ==
    {0} \cup {n \in 0..max_history_limit : n >= max_history_limit - Headroom}

\* A turn of an IPC client has been launched over a stored context.
HistoryInit ==
    /\ busy = TRUE
    /\ handle = 1
    /\ turns = <<NewTurn("ipc_1", "hi", 1)>>
    /\ subs = <<[source |-> "ipc_1", text |-> "hi",
                 fate |-> "admitted", turn |-> 1]>>
    /\ last_channel_name = None
    /\ activeTargets = [x \in {} |-> None]
    /\ liveDestinations = {"ipc_1"}
    /\ grace = {}
    /\ \E n \in StoredLengths : history = Stored(n)
    /\ outbox = <<>>
    /\ assistant_response = NotParsed
    /\ tool_call = NoToolCall
    /\ ServicesIdle

HistoryNext ==
    \/ TurnBegin(1)
    \/ \E r \in Responses : ModelReturns(1, r)
    \/ \E r \in Responses : ForcedReturns(1, r)

HistorySpec == HistoryInit /\ [][HistoryNext]_vars

\* ------------------------------------------------ Timers and IPC connections

\* What fires a timer: a cron task and a one-time reminder of the core
\* scheduler, an iteration of the schedule_manager scheduler plugin.
JobKinds == {"cron", "reminder", "plugin"}

\* scheduler/manager.py:51-54 and 113, schedule_manager/plugin.py:62-65:
\* the source a fired job is submitted with.
JobSource(kind) == IF kind = "plugin" THEN "schedule_manager" ELSE SCHEDULER

\* The instruction text of a fired job; each kind has its own prefix.
JobText(kind) ==
    IF kind = "cron" THEN "Scheduled Task: job"
    ELSE IF kind = "reminder" THEN "Reminder: job" ELSE "REMINDER: job"

JobTexts == {JobText(kind) : kind \in JobKinds}

\* The two IPC servers of the sources, Daemon.start and Kernel.start, and
\* the connections of their clients.
IpcServers == {"daemon", "kernel"}
Connections == {"1"}

\* daemon.py:25, source_id = f"ipc_{addr[0]}_{addr[1]}".
IpcName(conn) == IF conn = "1" THEN "ipc_1" ELSE "ipc_2"

\* daemon.py:25-31 and kernel.py:39-40: the source a line read on a
\* connection is submitted with.
LineSource(server, conn) ==
    IF server = "daemon" THEN IpcName(conn) ELSE "console"

\* The line a client sends; the clients of the two servers send different
\* lines.
LineText(server, conn) ==
    IF server = "daemon" THEN "line to daemon" ELSE "line to kernel"

LineTexts == {LineText(server, conn) : server \in IpcServers, conn \in Connections}

\* A job of the given kind fires.
JobFires(kind) ==
    \/ SubmitIdle(JobSource(kind), JobText(kind))
    \/ SubmitScheduler(JobSource(kind), JobText(kind))
    \/ SubmitBusy(JobSource(kind), JobText(kind))

\* A line is read on a connection of a server.
IpcLine(server, conn) ==
    \/ SubmitIdle(LineSource(server, conn), LineText(server, conn))
    \/ SubmitBusy(LineSource(server, conn), LineText(server, conn))

EntryNext ==
    \/ \E kind \in JobKinds : JobFires(kind)
    \/ \E server \in IpcServers : \E conn \in Connections :
          IpcLine(server, conn)
    \/ \E s \in 1..MaxSubmits : GraceExpire(s)
    \/ \E t \in 1..MaxTurns : TurnBegin(t)
    \/ \E t \in 1..MaxTurns : \E r \in Responses : ModelReturns(t, r)
    \/ \E t \in 1..MaxTurns : \E r \in Responses : ForcedReturns(t, r)
    \/ \E t \in 1..MaxTurns : TurnCancelled(t)

EntrySpec == Init /\ [][EntryNext]_vars

\* ------------------------------------------------------ Reminders and timers
\* CoreScheduler._reminder_loop polls the core table, the daemon's scheduler
\* loop runs ScheduleManager.run_iteration over the plugin's table, and a
\* cron job may fire at any time.

\* scheduler/manager.py:113 and schedule_manager/plugin.py:62-65: the
\* instruction text of a reminder, built from its description.
ReminderText(T, id) ==
    IF T = "core"
      THEN <<"Reminder: 1", "Reminder: 2", "Reminder: 3">>[id]
      ELSE <<"REMINDER: 1", "REMINDER: 2", "REMINDER: 3">>[id]

\* The submissions made of a reminder, and the one the loop made since it
\* reached the row (0 when none yet).
SubmissionsOf(T, id) ==
    {s \in 1..Len(subs) : subs[s].text = ReminderText(T, id)}
CurrentSubmission(T) ==
    LET made == {s \in SubmissionsOf(T, Head(loops[T].due_tasks)) :
                    s > loops[T].mark}
    IN  IF made = {} THEN 0 ELSE CHOOSE s \in made : TRUE

\* The awaited process_message raised: the provider's exception leaves the
\* turn to the caller.
Raised(s) ==
    subs[s].turn # 0 /\ turns[subs[s].turn].end = "provider_error"

\* Time passes: the schedule of a reminder is reached.
BecomesDue(T, id) ==
    /\ ~tasks[T][id].due
    /\ tasks' = [tasks EXCEPT ![T][id].due = TRUE]
    /\ UNCHANGED <<loops, sessionVars, parserVars>>
    /\ UNCHANGED <<event, daemon, launcher, splitter, context>>

\* scheduler/manager.py:102-110 and schedule_manager/plugin.py:50-59: the
\* SELECT of a poll returns the rows with status 'pending' and
\* schedule <= now, in the order of their ids; with no row due the loop
\* sleeps again.
Poll(T) ==
    LET due == {id \in 1..MaxReminders :
                   tasks[T][id].status = "pending" /\ tasks[T][id].due}
        rows == [i \in 1..Cardinality(due) |->
                   CHOOSE x \in due : Cardinality({y \in due : y <= x}) = i]
    IN  /\ loops[T].pc = "sleeping"
        /\ due # {}
        /\ loops' = [loops EXCEPT ![T] = [pc |-> "calling",
                                          due_tasks |-> rows,
                                          mark |-> Len(subs)]]
        /\ UNCHANGED <<tasks, sessionVars, parserVars>>
        /\ UNCHANGED <<event, daemon, launcher, splitter, context>>

\* scheduler/manager.py:112-113 and schedule_manager/plugin.py:61-65: the
\* loop calls process_message for the row it has reached, with the source
\* of its table.
ReminderSubmits(T) ==
    /\ loops[T].pc = "calling"
    /\ CurrentSubmission(T) = 0
    /\ LET text == ReminderText(T, Head(loops[T].due_tasks))
           source == JobSource(IF T = "core" THEN "reminder" ELSE "plugin")
       IN  \/ SubmitIdle(source, text)
           \/ SubmitScheduler(source, text)
           \/ SubmitBusy(source, text)

\* scheduler/manager.py:114 and schedule_manager/plugin.py:66: the awaited
\* process_message is over (the submission was rejected, or the turn
\* admitted for it has ended) and has not raised; the row is marked
\* completed whatever became of the turn, and the loop goes on to the next
\* row or sleeps.
ReminderReturns(T) ==
    LET s == CurrentSubmission(T)
        rest == Tail(loops[T].due_tasks)
    IN  /\ loops[T].pc = "calling"
        /\ s # 0
        /\ \/ subs[s].fate = "busy"
           \/ subs[s].turn # 0 /\ turns[subs[s].turn].pc = "done"
        /\ ~Raised(s)
        /\ tasks' = [tasks EXCEPT
                        ![T][Head(loops[T].due_tasks)].status = "completed"]
        /\ loops' = [loops EXCEPT ![T] =
                        [pc |-> IF rest # <<>> THEN "calling" ELSE "sleeping",
                         due_tasks |-> rest,
                         mark |-> Len(subs)]]
        /\ UNCHANGED <<sessionVars, parserVars>>
        /\ UNCHANGED <<event, daemon, launcher, splitter, context>>

\* The call raised: the row keeps its status.  _reminder_loop has no
\* handler (scheduler/manager.py:99-118), its task ends; daemon.py:73-79
\* catches what run_iteration raises and goes on to its next wait.
ReminderRaises(T) ==
    /\ loops[T].pc = "calling"
    /\ CurrentSubmission(T) # 0
    /\ Raised(CurrentSubmission(T))
    /\ loops' = [loops EXCEPT ![T] =
                    [pc |-> IF T = "core" THEN "dead" ELSE "sleeping",
                     due_tasks |-> <<>>,
                     mark |-> Len(subs)]]
    /\ UNCHANGED <<tasks, sessionVars, parserVars>>
    /\ UNCHANGED <<event, daemon, launcher, splitter, context>>

\* The reminder loops, the cron jobs (scheduler/manager.py:51-54: submitted
\* with the scheduler source, a cron job is admitted at once or takes the
\* priority path) and the turns they start; of a turn's model calls the
\* outcomes that matter to the caller of process_message are followed: a
\* final answer, or the provider's exception.
TimerNext ==
    \/ \E T \in Tables : \E id \in 1..MaxReminders : BecomesDue(T, id)
    \/ \E T \in Tables : Poll(T)
    \/ \E T \in Tables : ReminderSubmits(T)
    \/ \E T \in Tables : ReminderReturns(T)
    \/ \E T \in Tables : ReminderRaises(T)
    \/ SubmitIdle(SCHEDULER, JobText("cron"))
    \/ SubmitScheduler(SCHEDULER, JobText("cron"))
    \/ \E s \in 1..MaxSubmits : GraceExpire(s)
    \/ \E t \in 1..MaxTurns : TurnBegin(t)
    \/ \E t \in 1..MaxTurns : \E r \in {"text", PROVIDER_ERROR} :
          ModelReturns(t, r)
    \/ \E t \in 1..MaxTurns : TurnCancelled(t)

TimerSpec == Init /\ [][TimerNext]_vars

\* --------------------------------------------------------- Scheduled events
\* Router.handle_scheduled_event (router.py:147-189): the tool loop of a
\* scheduled event over its own message list.

\* router.py:147-160: the handler is called; the message list holds the
\* instruction, response_text is "".
EventStarts ==
    /\ ServicesIdle
    /\ event' = [event EXCEPT !.pc = "awaiting",
                              !.messages = <<"instruction">>]
    /\ UNCHANGED <<sessionVars, parserVars>>
    /\ UNCHANGED <<tasks, loops, daemon, launcher, splitter, context>>

\* router.py:162-189: the model call of iteration i returns r, or
\* provider.chat raises and the exception leaves the handler with nothing
\* stored or sent.  The output and, for a tool call, the tool's result are
\* appended to the messages; the loop goes on after a tool call while
\* range(max_iterations) has a value left; when the loop is left, the
\* instruction and response_text are stored and response_text is sent.
EventModelReturns(r) ==
    LET messages == IF IsToolCall(r)
                      THEN Append(Append(event.messages, r), "tool_result")
                      ELSE Append(event.messages, r)
    IN  /\ event.pc = "awaiting"
        /\ IF r = PROVIDER_ERROR
             THEN /\ event' = [event EXCEPT !.pc = "failed"]
                  /\ UNCHANGED history
           ELSE IF IsToolCall(r) /\ event.i + 1 < max_iterations
             THEN /\ event' = [event EXCEPT
                                  !.i = @ + 1, !.response_text = r,
                                  !.messages = messages]
                  /\ UNCHANGED history
             ELSE /\ event' = [event EXCEPT
                                  !.pc = "done", !.response_text = r,
                                  !.messages = messages, !.sent = r]
                  /\ history' = add_message(
                                    add_message(history, "user", "scheduled", 0),
                                    "assistant", BodyOf(r), 0)
        /\ UNCHANGED <<busy, handle, activeTargets, liveDestinations, grace,
                       subs, turns, last_channel_name, outbox>>
        /\ UNCHANGED parserVars
        /\ UNCHANGED <<tasks, loops, daemon, launcher, splitter, context>>

\* ------------------------------------------------------------ Daemon shutdown
\* Daemon.start, Daemon.stop and Daemon._run_scheduler_loop
\* (daemon.py:38-121) on the event loop: every task runs from one
\* suspension point to the next, and a callback (a timer, a signal
\* handler) runs between the steps of the tasks.

\* The tasks Daemon.start appends to running_tasks: the loop of every
\* scheduler plugin (there is one, schedule_manager), the IPC server, the
\* start of every channel.
RunningTasks == {"schedule_manager", "ipc_server", "console", "telegram"}

\* The iterations a scheduler loop runs.
MaxRuns == 2

\* daemon.py:81-108: start creates the tasks and waits for the shutdown
\* event; every scheduler loop is in its wait_for.  A task of running_tasks
\* holds where it is suspended, whether cancel() was called on it, the
\* iterations it has begun, and whether it began one with the shutdown
\* event set.
DaemonStarts ==
    /\ ServicesIdle
    /\ daemon' =
          [shutdown_event |-> FALSE, main |-> "waiting",
           running_tasks |-> [x \in RunningTasks |->
               [pc |-> IF x = "schedule_manager" THEN "waiting" ELSE "running",
                cancelReq |-> FALSE, runs |-> 0, late |-> FALSE]]]
    /\ UNCHANGED <<sessionVars, parserVars>>
    /\ UNCHANGED <<tasks, loops, event, launcher, splitter, context>>

\* daemon.py:103-105: SIGINT or SIGTERM arrives, the handler sets the
\* event.
Signal ==
    /\ daemon.main = "waiting"
    /\ ~daemon.shutdown_event
    /\ daemon' = [daemon EXCEPT !.shutdown_event = TRUE]
    /\ UNCHANGED <<sessionVars, parserVars>>
    /\ UNCHANGED <<tasks, loops, event, launcher, splitter, context>>

\* daemon.py:72: the timeout of wait_for runs out before the event is set;
\* the timer's callback cancels the wait and schedules the loop's task.
TimerExpires(s) ==
    /\ s \in DOMAIN daemon.running_tasks
    /\ daemon.running_tasks[s].pc = "waiting"
    /\ ~daemon.shutdown_event
    /\ daemon' = [daemon EXCEPT !.running_tasks[s].pc = "timed_out"]
    /\ UNCHANGED <<sessionVars, parserVars>>
    /\ UNCHANGED <<tasks, loops, event, launcher, splitter, context>>

\* daemon.py:72-74: the wait returns because the event is set; the loop
\* breaks.
WaitReturns(s) ==
    /\ s \in DOMAIN daemon.running_tasks
    /\ daemon.running_tasks[s].pc = "waiting"
    /\ daemon.shutdown_event
    /\ ~daemon.running_tasks[s].cancelReq
    /\ daemon' = [daemon EXCEPT !.running_tasks[s].pc = "ended"]
    /\ UNCHANGED <<sessionVars, parserVars>>
    /\ UNCHANGED <<tasks, loops, event, launcher, splitter, context>>

\* daemon.py:75-77: the loop's task resumes with TimeoutError and calls
\* run_iteration; the except branch does not look at the event.
IterationBegins(s) ==
    /\ s \in DOMAIN daemon.running_tasks
    /\ daemon.running_tasks[s].pc = "timed_out"
    /\ ~daemon.running_tasks[s].cancelReq
    /\ daemon.running_tasks[s].runs < MaxRuns
    /\ daemon' = [daemon EXCEPT
                     !.running_tasks[s].pc = "iterating",
                     !.running_tasks[s].runs = @ + 1,
                     !.running_tasks[s].late = @ \/ daemon.shutdown_event]
    /\ UNCHANGED <<sessionVars, parserVars>>
    /\ UNCHANGED <<tasks, loops, event, launcher, splitter, context>>

\* daemon.py:41 and 76-79: run_iteration returns or raises an Exception,
\* which is printed; the while condition ends the loop when the event is
\* set.
IterationEnds(s) ==
    /\ s \in DOMAIN daemon.running_tasks
    /\ daemon.running_tasks[s].pc = "iterating"
    /\ ~daemon.running_tasks[s].cancelReq
    /\ daemon' = [daemon EXCEPT !.running_tasks[s].pc =
                     IF daemon.shutdown_event THEN "ended" ELSE "waiting"]
    /\ UNCHANGED <<sessionVars, parserVars>>
    /\ UNCHANGED <<tasks, loops, event, launcher, splitter, context>>

\* daemon.py:107-108 and 110-113: start resumes once the event is set and
\* stop calls cancel() on every task of running_tasks.
Stop ==
    /\ daemon.main = "waiting"
    /\ daemon.shutdown_event
    /\ daemon' = [daemon EXCEPT
                     !.main = "stopped",
                     !.running_tasks = [x \in RunningTasks |->
                         [daemon.running_tasks[x] EXCEPT
                             !.cancelReq = TRUE]]]
    /\ UNCHANGED <<sessionVars, parserVars>>
    /\ UNCHANGED <<tasks, loops, event, launcher, splitter, context>>

\* A task on which cancel() was called resumes at its suspension point
\* with CancelledError, which no handler of the loop catches, and ends.
TaskCancelled(x) ==
    /\ x \in DOMAIN daemon.running_tasks
    /\ daemon.running_tasks[x].pc \in
          {"running", "waiting", "timed_out", "iterating"}
    /\ daemon.running_tasks[x].cancelReq
    /\ daemon' = [daemon EXCEPT !.running_tasks[x].pc = "cancelled"]
    /\ UNCHANGED <<sessionVars, parserVars>>
    /\ UNCHANGED <<tasks, loops, event, launcher, splitter, context>>

\* ------------------------------------------------------- start --daemon
\* console/cli.py:32-96 (and main.py:61-177, the same code): the parent
\* runs `start --daemon`, the child it spawns runs `start`; both are
\* processes of the operating system, run the same function and run in
\* parallel.  p is "parent" or "child".

\* cli.py:42-47: `start --daemon` is run.  The PID file holds nothing (no
\* file), text that is no number, the PID of a process that has died, or
\* the PID of some other live process.
LauncherStarts(contents) ==
    /\ ServicesIdle
    /\ launcher' = [launcher EXCEPT !.pid_file = contents,
                                    !.parent = "start"]
    /\ UNCHANGED <<sessionVars, parserVars>>
    /\ UNCHANGED <<tasks, loops, event, daemon, splitter, context>>

\* cli.py:35-40, the second half of is_running: the content read is a
\* number and os.kill(pid, 0) finds a process with that PID; the child is
\* a live process from Popen until it exits.  A file that was removed or
\* truncated in the meantime raises and the answer is no.
is_running(l) ==
    \/ l.pid_file = "pid_other"
    \/ /\ l.pid_file = "pid_child"
       /\ l.child \in {"start", "reading", "clear", "opened", "running"}

\* cli.py:33-34 and 47: the check on entry begins with PID_FILE.exists().
FileExists(p) ==
    /\ launcher[p] = "start"
    /\ launcher' = [launcher EXCEPT
          ![p] = IF launcher.pid_file = "absent" THEN "clear" ELSE "reading",
          !.seen = IF p = "child" /\ launcher.pid_file = "absent"
                     THEN "absent" ELSE @]
    /\ UNCHANGED <<sessionVars, parserVars>>
    /\ UNCHANGED <<tasks, loops, event, daemon, splitter, context>>

\* cli.py:35-40 and 47-49: the process reads the file; when is_running
\* answers yes it prints "already running" and exits, leaving the file as
\* it is.
FileRead(p) ==
    /\ launcher[p] = "reading"
    /\ launcher' = [launcher EXCEPT
          ![p] = IF is_running(launcher) THEN "already_running" ELSE "clear",
          !.seen = IF p = "child" THEN launcher.pid_file ELSE @]
    /\ UNCHANGED <<sessionVars, parserVars>>
    /\ UNCHANGED <<tasks, loops, event, daemon, splitter, context>>

\* cli.py:69-73: subprocess.Popen starts the child.
ParentSpawns ==
    /\ launcher.parent = "clear"
    /\ launcher' = [launcher EXCEPT !.parent = "spawned", !.child = "start"]
    /\ UNCHANGED <<sessionVars, parserVars>>
    /\ UNCHANGED <<tasks, loops, event, daemon, splitter, context>>

\* cli.py:74 and 82: open(PID_FILE, "w") creates or truncates the file;
\* the parent does so after Popen, the child after its check.
FileOpened(p) ==
    /\ launcher[p] = IF p = "parent" THEN "spawned" ELSE "clear"
    /\ launcher' = [launcher EXCEPT ![p] = "opened", !.pid_file = "empty"]
    /\ UNCHANGED <<sessionVars, parserVars>>
    /\ UNCHANGED <<tasks, loops, event, daemon, splitter, context>>

\* cli.py:75-80 and 83-87: the parent writes the child's PID and exits;
\* the child writes its own PID and runs the daemon.
FileWritten(p) ==
    /\ launcher[p] = "opened"
    /\ launcher' = [launcher EXCEPT
          ![p] = IF p = "parent" THEN "exited" ELSE "running",
          !.pid_file = "pid_child"]
    /\ UNCHANGED <<sessionVars, parserVars>>
    /\ UNCHANGED <<tasks, loops, event, daemon, splitter, context>>

\* cli.py:88-96: the daemon ends; the finally clause removes the file.
ChildStops ==
    /\ launcher.child = "running"
    /\ launcher' = [launcher EXCEPT !.child = "stopped",
                                    !.pid_file = "absent"]
    /\ UNCHANGED <<sessionVars, parserVars>>
    /\ UNCHANGED <<tasks, loops, event, daemon, splitter, context>>

\* ------------------------------------------------- Telegram message splitting
\* TelegramChannel.send_message and _send_text_async
\* (telegram/plugin.py:146-238) and TelegramBotChannel.send_reply
\* (telegram_bot.py:153-183).  A text is a sequence of characters; the
\* characters that matter to the splitting are a letter, a newline, a
\* space and a backslash.

\* The maximum message length, 4096 in the sources, scaled down; the
\* splitting depends on positions relative to it only.
TELEGRAM_MAX_MESSAGE_LENGTH == 3

\* The longest text handed to the channel, and the passes of the loop
\* that are followed.
MaxRawLen == 6
MaxParts == 6

\* telegram/plugin.py:146-163, _escape_markdown: every backslash is
\* doubled (none of the other escaped characters is among those of the
\* texts).
RECURSIVE escape_markdown(_)
escape_markdown(text) ==
    IF text = <<>> THEN <<>>
    ELSE IF Head(text) = "backslash"
      THEN <<"backslash", "backslash">> \o escape_markdown(Tail(text))
      ELSE <<Head(text)>> \o escape_markdown(Tail(text))

\* telegram/plugin.py:165-190 and telegram_bot.py:153-160: a text is
\* handed to the channel.  send_message escapes it before
\* _send_text_async, send_reply takes it as it is.
SplitterStarts(fn) ==
    /\ ServicesIdle
    /\ \E n \in 1..MaxRawLen :
          \E raw \in [1..n -> {"a", "newline", SP, "backslash"}] :
             splitter' = [pc |-> "splitting", fn |-> fn,
                          text |-> IF fn = "_send_text_async"
                                     THEN escape_markdown(raw) ELSE raw,
                          parts |-> <<>>]
    /\ UNCHANGED <<sessionVars, parserVars>>
    /\ UNCHANGED <<tasks, loops, event, daemon, launcher, context>>

\* telegram/plugin.py:216-224 and telegram_bot.py:171-175: the split
\* position of a text longer than the maximum.  rfind(n) is
\* str.rfind(sub, 0, TELEGRAM_MAX_MESSAGE_LENGTH) for sub of n newlines:
\* the highest 0-based index at which sub lies within the slice, -1 when
\* there is none.  In _send_text_async a part is not to end with a
\* backslash; text[split_pos-1] is the character before the position.
split_pos(fn, text) ==
    LET rfind(n) ==
            LET found == {i \in 0..(TELEGRAM_MAX_MESSAGE_LENGTH - n) :
                             \A k \in 1..n : text[i + k] = "newline"}
            IN  IF found = {} THEN -1 ELSE Max(found)
        pos == IF rfind(2) # -1 THEN rfind(2)
               ELSE IF rfind(1) # -1 THEN rfind(1)
               ELSE TELEGRAM_MAX_MESSAGE_LENGTH
    IN  IF fn = "_send_text_async" /\ pos > 0 /\ text[pos] = "backslash"
          THEN pos - 1 ELSE pos

\* str.lstrip(): the leading white space is removed.
RECURSIVE lstrip(_)
lstrip(text) ==
    IF text # <<>> /\ Head(text) \in {"newline", SP}
      THEN lstrip(Tail(text)) ELSE text

\* telegram/plugin.py:207-238 and telegram_bot.py:159-183: one pass of the
\* while loop; the pass that ends the loop is followed by the sending of
\* the parts.
SplitPass ==
    /\ splitter.pc = "splitting"
    /\ Len(splitter.parts) < MaxParts
    /\ LET text == splitter.text
           pos == split_pos(splitter.fn, text)
       IN  splitter' =
             IF Len(text) = 0
               THEN [splitter EXCEPT !.pc = "done"]
             ELSE IF Len(text) <= TELEGRAM_MAX_MESSAGE_LENGTH
               THEN [splitter EXCEPT !.pc = "done", !.text = <<>>,
                                     !.parts = Append(@, text)]
             ELSE [splitter EXCEPT
                      !.parts = Append(@, SubSeq(text, 1, pos)),
                      !.text = lstrip(SubSeq(text, pos + 1, Len(text)))]
    /\ UNCHANGED <<sessionVars, parserVars>>
    /\ UNCHANGED <<tasks, loops, event, daemon, launcher, context>>

\* ------------------------------------------------- Context and its two limits
\* ContextManager.add_message and update_limit (context_manager.py:55-102)
\* over the short-term list messages and the long-term list history.

\* The limits update_limit is called with, and the calls of add_message
\* that are followed.
MaxLimit == 2
MaxAdds == 4

\* context_manager.py:13-30: the ContextManager is constructed with the
\* limit of the configuration, the history file's entries and an empty
\* messages file.
ContextLoads(limit, n) ==
    /\ ServicesIdle
    /\ context' = [context EXCEPT !.max_messages_limit = limit,
                                  !.last = "init"]
    /\ history' = Stored(n)
    /\ UNCHANGED <<busy, handle, activeTargets, liveDestinations, grace,
                   subs, turns, last_channel_name, outbox>>
    /\ UNCHANGED parserVars
    /\ UNCHANGED <<tasks, loops, event, daemon, launcher, splitter>>

\* context_manager.py:55-76: add_message appends the new message to both
\* lists and enforces the limit of each.  The limit of messages is the
\* slice messages[-limit:] taken when the list is longer than the limit:
\* the last limit elements, and for a limit of 0 the slice [0:], the whole
\* list.
ContextAdd(role, kind) ==
    LET msgs == Append(context.messages, Entry(role, kind, context.adds + 1))
        limit == context.max_messages_limit
    IN  /\ context.last # "unloaded"
        /\ context.adds < MaxAdds
        /\ context' = [context EXCEPT
              !.messages = IF Len(msgs) > limit /\ limit # 0
                             THEN SubSeq(msgs, Len(msgs) - limit + 1,
                                         Len(msgs))
                             ELSE msgs,
              !.adds = @ + 1,
              !.last = "add_message"]
        /\ history' = add_message(history, role, kind, context.adds + 1)
        /\ UNCHANGED <<busy, handle, activeTargets, liveDestinations, grace,
                       subs, turns, last_channel_name, outbox>>
        /\ UNCHANGED parserVars
        /\ UNCHANGED <<tasks, loops, event, daemon, launcher, splitter>>

\* context_manager.py:84-102: update_limit ignores a negative limit and
\* takes any other; the lists are left as they are.
UpdateLimit(new_limit) ==
    /\ context.last # "unloaded"
    /\ context' = [context EXCEPT
          !.max_messages_limit = IF new_limit < 0 THEN @ ELSE new_limit,
          !.last = "update_limit"]
    /\ UNCHANGED <<sessionVars, parserVars>>
    /\ UNCHANGED <<tasks, loops, event, daemon, launcher, splitter>>

\* ------------------------------------------------- one service at a time
\* The services share no state with one another: a behaviour follows one
\* of them from its call on, the others at rest.

ServiceNext ==
    \/ EventStarts
    \/ \E r \in ToolResponses \cup TextResponses \cup {PROVIDER_ERROR} :
          EventModelReturns(r)
    \/ DaemonStarts
    \/ Signal
    \/ \E s \in {"schedule_manager"} : TimerExpires(s)
    \/ \E s \in {"schedule_manager"} : WaitReturns(s)
    \/ \E s \in {"schedule_manager"} : IterationBegins(s)
    \/ \E s \in {"schedule_manager"} : IterationEnds(s)
    \/ Stop
    \/ \E x \in RunningTasks : TaskCancelled(x)
    \/ \E contents \in {"absent", "garbage", "pid_dead", "pid_other"} :
          LauncherStarts(contents)
    \/ \E p \in {"parent", "child"} : FileExists(p)
    \/ \E p \in {"parent", "child"} : FileRead(p)
    \/ ParentSpawns
    \/ \E p \in {"parent", "child"} : FileOpened(p)
    \/ \E p \in {"parent", "child"} : FileWritten(p)
    \/ ChildStops
    \/ \E fn \in {"_send_text_async", "send_reply"} : SplitterStarts(fn)
    \/ SplitPass
    \/ \E limit \in 0..MaxLimit : \E n \in StoredLengths :
          ContextLoads(limit, n)
    \/ \E role \in {"user", "assistant"} : ContextAdd(role, "text")
    \/ \E new_limit \in -1..MaxLimit : UpdateLimit(new_limit)

ServiceSpec == Init /\ [][ServiceNext]_vars

\* ------------------------------------------------------------------- claims

SubIds == 1..Len(subs)

NoSchedulerSubmission == \A s \in SubIds : subs[s].source # SCHEDULER

\* The outbox entries that satisfy P, by position.
OutboxIdx(P(_)) == {i \in 1..Len(outbox) : P(outbox[i])}

\* C1: as long as no submission has come from the scheduler source, at most
\* one Turn Executor invocation is in flight and every submission made
\* while busy has started none, also when the submissions arrive before
\* the admitted turn has begun to run.
C1_SingleFlight ==
    NoSchedulerSubmission =>
        /\ Cardinality(InFlight) <= 1
        /\ busy <=> InFlight # {}
        /\ \A s \in SubIds : subs[s].fate # "admitted" =>
               \A t \in TurnIds : turns[t].sub # s

\* C1 witness: two further submissions arrived back-to-back while the only
\* turn had been admitted but had not yet begun to run.
C1_Witness ==
    /\ NoSchedulerSubmission
    /\ Len(subs) = 3
    /\ Len(turns) = 1
    /\ turns[1].pc = "launched"
    /\ subs[2].fate = "busy"
    /\ subs[3].fate = "busy"

Preempted == \E s \in SubIds : subs[s].fate = "preempt"

C3_ReleaseOnEveryEnd ==
    [][\A t \in InFlight :
          turns'[t].pc = "done" =>
              /\ turns'[t].end \in {"final", "cancelled", "provider_error"}
              /\ busy' = FALSE
              /\ handle' = NoTurn
              /\ SessionIdle']_vars

\* C3 witness: a turn ended by a provider error, another by cancellation,
\* and the submission after the first was admitted, not turned away.
C3_Witness ==
    /\ Len(turns) = 2
    /\ turns[1].end = "provider_error"
    /\ turns[2].end = "cancelled"
    /\ subs[2].fate = "admitted"
    /\ ~busy
    /\ handle = NoTurn

\* A scheduler submission's turn has started running.
Started(s) == subs[s].turn # 0 /\ turns[subs[s].turn].pc # "launched"

ReachesSource(o, source) == \E d \in o.to : d.dest = source

Interrupted(t) ==
    OutboxIdx(LAMBDA o : o.kind = "interrupted" /\ o.turn = t)

\* A "stop" submission made while busy, and the turn it asked to cancel.
StopSubs == {s \in SubIds : subs[s].fate = "stop"}

BusySubs == {s \in SubIds : subs[s].fate = "busy"}

Settled(s) ==
    \/ subs[s].fate = "busy"
    \/ /\ subs[s].fate \in {"admitted", "preempt"}
       /\ subs[s].turn # 0
       /\ turns[subs[s].turn].pc = "done"

Outcomes(s) == OutboxIdx(LAMBDA o : o.sub = s)

\* C7, as claimed: every settled submission, admitted or turned away, has
\* exactly one of a final answer, an interrupted notice, a busy notice or a
\* provider-error notice, never none and never two.
C7_ExactlyOneOutcome ==
    \A s \in SubIds : Settled(s) => Cardinality(Outcomes(s)) = 1

NotesOf(t) ==
    {i \in 1..Len(history) : history[i].turn = t /\ history[i].kind = "note"}

\* C8: a turn whose iterations (and with them its tool errors) reach
\* max_iterations has exactly one note in the context, has one more model
\* call outstanding and no more than max_iterations + 1 in all; nothing of
\* the turn enters the context after the note; the step that takes the
\* turn out of that last call executes no tool, parses nothing into the
\* context, ends the turn, and delivers the output as the final text.
C8_ForcedFinalAnswer ==
    /\ [](\A t \in TurnIds :
            /\ Cardinality(NotesOf(t)) <= 1
            /\ \A i \in NotesOf(t) : \A j \in (i + 1)..Len(history) :
                  history[j].turn # t
            /\ t \in InFlight =>
                  /\ turns[t].modelCalls <= max_iterations + 1
                  /\ turns[t].notes = Cardinality(NotesOf(t))
                  /\ turns[t].errors <= turns[t].iter
                  /\ (turns[t].iter >= max_iterations
                        \/ turns[t].errors >= max_iterations)
                     <=> (turns[t].pc = "awaiting_final")
                  /\ turns[t].pc = "awaiting_final" =>
                        /\ turns[t].notes = 1
                        /\ turns[t].iter = max_iterations
                        /\ turns[t].modelCalls = max_iterations + 1)
    /\ [][\A t \in InFlight :
            (turns[t].pc = "awaiting_final" /\ turns'[t].pc # "awaiting_final")
            => /\ turns'[t].pc = "done"
               /\ history' = history
               /\ turns'[t].end = "final" =>
                     /\ Len(outbox') = Len(outbox) + 1
                     /\ outbox'[Len(outbox')].kind = "final"
                     /\ outbox'[Len(outbox')].turn = t
                     /\ outbox'[Len(outbox')].source = turns[t].source]_vars

\* C8 witness: the call after the note returned a tool call and it was
\* delivered as the final text.
C8_Witness ==
    \E t \in TurnIds :
        /\ turns[t].end = "final"
        /\ NotesOf(t) # {}
        /\ \E i \in 1..Len(outbox) :
              /\ outbox[i].turn = t
              /\ outbox[i].kind = "final"
              /\ outbox[i].body = "tool_call"

\* C9, as claimed: a turn all of whose tool invocations raised and that
\* used up its budget has run at most max_iterations tool iterations, and
\* the step that ends it with an answer delivers one non-empty final text
\* to the turn's source.
C9_AllRaiseNonEmptyFinal ==
    [][\A t \in InFlight :
          (/\ turns[t].pc = "awaiting_final"
           /\ turns[t].errors = turns[t].iter
           /\ turns'[t].pc = "done"
           /\ turns'[t].end = "final")
          => /\ turns[t].iter <= max_iterations
             /\ Len(outbox') = Len(outbox) + 1
             /\ outbox'[Len(outbox')].kind = "final"
             /\ outbox'[Len(outbox')].source = turns[t].source
             /\ outbox'[Len(outbox')].body # "empty"]_vars

\* C10, as claimed: a turn ended by a failed model call has exactly one
\* provider-error message, sent to the turn's source by the Output Router.
C10_ProviderErrorThroughRouter ==
    \A t \in TurnIds :
        turns[t].end = "provider_error" =>
            Cardinality(OutboxIdx(LAMBDA o :
                /\ o.turn = t
                /\ o.kind = "provider_error"
                /\ o.via = "router"
                /\ o.source = turns[t].source)) = 1

\* The context entries of turn t, in the order of the context list.
EntriesOf(t) == SelectSeq(history, LAMBDA e : e.turn = t)

\* What may follow an entry of a turn: a model output follows the input or
\* a tool result, a tool result follows the tool call it answers.
MayFollow(a, b) ==
    \/ a.kind = "input" /\ b.kind \in {"tool_call", "final"}
    \/ a.kind = "tool_call" /\ b.kind = "tool_result"
    \/ a.kind = "tool_result" /\ b.kind \in {"tool_call", "final", "note"}

RoleOf(kind) == IF kind \in {"tool_call", "final"} THEN "assistant" ELSE "user"

Count(seq, kind) == Cardinality({i \in 1..Len(seq) : seq[i].kind = kind})

\* C11: the entries a turn appends to the context are its input, then for
\* every model call in the order issued the assistant's output, each tool
\* call followed at once by its tool result, and nothing else between
\* them; the tool calls recorded are the iterations made; while no turn
\* was preempted the entries of a turn are next to each other in the list.
C11_ContextOrder ==
    \A t \in TurnIds :
        LET es == EntriesOf(t)
        IN  /\ (es = <<>>) <=> (turns[t].pc = "launched")
            /\ es # <<>> => es[1].kind = "input"
            /\ \A i \in 1..Len(es) : es[i].role = RoleOf(es[i].kind)
            /\ \A i \in 1..(Len(es) - 1) : MayFollow(es[i], es[i + 1])
            /\ Count(es, "tool_call") = Count(es, "tool_result")
            /\ t \in InFlight =>
                  /\ Count(es, "tool_call") = turns[t].iter
                  /\ Count(es, "final") = 0
            /\ ~Preempted =>
                  \A i, j \in 1..Len(history) :
                      (i < j /\ history[i].turn = t /\ history[j].turn = t)
                      => \A k \in i..j : history[k].turn = t

\* C11 witness: a turn whose model outputs were two tool calls and a final
\* answer has ended.
C11_Witness ==
    \E t \in TurnIds :
        /\ turns[t].end = "final"
        /\ EntriesOf(t) = <<Entry("user", "input", t),
                            Entry("assistant", "tool_call", t),
                            Entry("user", "tool_result", t),
                            Entry("assistant", "tool_call", t),
                            Entry("user", "tool_result", t),
                            Entry("assistant", "final", t)>>

\* The texts delivered for the scheduler source.
Broadcasts == {i \in 1..Len(outbox) : outbox[i].source = SCHEDULER}

\* The activeTargets of the broadcast scenario.
ScenarioTargets == [x \in {"console", "telegram"} |-> LastTargetOf(x)]

FailedOf(o) == o.to \ o.reached

C16_NamedChannelWithTarget ==
    \A i \in 1..Len(outbox) :
        LET o == outbox[i]
        IN  /\ o.source \in active_channels =>
                  o.to = {[dest |-> o.source,
                           target |-> IF o.source \in DOMAIN activeTargets
                                        THEN activeTargets[o.source]
                                        ELSE None]}
            /\ o.source = UNREGISTERED =>
                  o.to = {get_preferred_output_channel}

\* C17: a step that delivers a text, whatever fails in it, leaves the
\* turns, busy and the handle as they were; after a failed delivery the
\* turn is still running, and the next delivery is tried.
C17_FailureNotPropagated ==
    /\ [][Len(outbox') = Len(outbox) + 1
            => (turns' = turns /\ busy' = busy /\ handle' = handle)]_vars
    /\ [](\A i \in 1..Len(outbox) :
             FailedOf(outbox[i]) # {} =>
                /\ busy
                /\ handle \in InFlight
                /\ Len(outbox) < MaxDeliveries =>
                      ENABLED SendToChannel(outbox[i].source, {}))

\* C17 witness: a delivery that reached nobody was followed by a delivery
\* of the same turn that was reached.
C17_Witness ==
    /\ Len(outbox) = 2
    /\ outbox[1].reached = {}
    /\ outbox[1].to # {}
    /\ outbox[2].turn = outbox[1].turn
    /\ outbox[2].reached # {}
    /\ handle \in InFlight

\* C18, as claimed: what the parser returns for a model output is what the
\* reference returns for it.
C18_ParseEqualsReference ==
    assistant_response # NotParsed =>
        tool_call = ReferenceParse(assistant_response)

\* The whole output is one JSON object.
IsObject(text) == json_loads_ok(text)

\* The output starts an object that its end cuts short.
IsTruncated(text) ==
    /\ At(text, 1) = LB
    /\ \A j \in 1..Len(text) : Depth(text, j + 1) > 0

\* C19, as claimed: for an output that is a JSON object without a tool key,
\* or JSON cut short, the parser returns none and the loop delivers the
\* output as the final answer and ends the turn, counting no error.
C19_NoToolKeyIsFinalAnswer ==
    (/\ assistant_response # NotParsed
     /\ \/ IsObject(assistant_response)
            /\ TopLevel(assistant_response, TOOL) = {}
        \/ IsTruncated(assistant_response))
    => /\ tool_call = NoToolCall
       /\ turns[1].end = "final"
       /\ Len(outbox) = 1
       /\ outbox[1].kind = "final"
       /\ ~busy

SentFor(t) == {i \in 1..Len(outbox) : outbox[i].turn = t}

\* Turn t observes its cancellation in this step.
ObservesCancel(t) == turns[t].end # "cancelled" /\ turns'[t].end = "cancelled"

\* C21: a turn observes its cancellation only while it waits at a
\* suspension point and the step in which it does appends nothing to the
\* context and sends the interrupted notice and nothing else; a turn whose
\* cancellation is requested while it waits makes no step but that one;
\* after it the turn makes no model or tool call, nothing of it enters the
\* context and nothing more is sent for it.
C21_CancelAtSuspensionPoint ==
    [][\A t \in TurnIds :
          /\ ObservesCancel(t) =>
                /\ turns[t].pc \in {"awaiting", "awaiting_final"}
                /\ turns[t].cancelReq
                /\ history' = history
                /\ Len(outbox') = Len(outbox) + 1
                /\ outbox'[Len(outbox')].kind = "interrupted"
                /\ outbox'[Len(outbox')].turn = t
                /\ \A i \in 1..Len(outbox) : outbox'[i] = outbox[i]
          /\ (turns[t].cancelReq /\ turns[t].pc \in {"awaiting", "awaiting_final"}
                /\ turns'[t] # turns[t]) => ObservesCancel(t)
          /\ turns[t].end = "cancelled" =>
                /\ turns'[t] = turns[t]
                /\ EntriesOf(t)' = EntriesOf(t)
                /\ SentFor(t)' = SentFor(t)
                /\ \A i \in SentFor(t) : outbox'[i] = outbox[i]
                /\ Cardinality({i \in SentFor(t) : outbox[i].kind = "final"}) = 0
      ]_vars

\* C21 witness: a turn that had made tool calls was cancelled at a later
\* model call; the interrupted notice is the only text sent for it, and
\* another turn has run to its final answer since.
C21_Witness ==
    \E t \in TurnIds :
        /\ turns[t].end = "cancelled"
        /\ Count(EntriesOf(t), "tool_call") >= 1
        /\ Cardinality(SentFor(t)) = 1
        /\ \A i \in SentFor(t) : outbox[i].kind = "interrupted"
        /\ \E u \in TurnIds : u > t /\ turns[u].end = "final"

\* Turn t makes a tool call in this step whose tool is missing or disabled
\* (nothing was executed) or raised.
ToolErrorStep(t) ==
    /\ turns[t].pc = "awaiting"
    /\ turns'[t].iter = turns[t].iter + 1
    /\ \/ turns'[t].toolExecs = turns[t].toolExecs
       \/ turns'[t].errors = turns[t].errors + 1

\* C22, as claimed: every tool error is recovered in the loop, adds exactly
\* one to the error count, is sent to the user as an intermediate message
\* of the turn, and leaves the turn running.
C22_ToolErrorSurfaced ==
    [][\A t \in TurnIds :
          ToolErrorStep(t) =>
              /\ turns'[t].pc # "done"
              /\ turns'[t].errors = turns[t].errors + 1
              /\ Len(outbox') > Len(outbox)
              /\ outbox'[Len(outbox')].turn = t
              /\ outbox'[Len(outbox')].kind # "final"
      ]_vars

\* Entries of one turn are stored on both sides of an entry of another.
Interleaved ==
    \E i \in 1..(Len(history) - 1) :
        /\ history[i + 1].turn # history[i].turn
        /\ \E k \in (i + 2)..Len(history) : history[k].turn = history[i].turn

Submits == Len(subs') = Len(subs) + 1

\* C24: a submit call made while the session is idle, whatever its source
\* and text, is admitted in the same step: busy is set, exactly one turn
\* is created for it, launched and not yet running, its handle is kept,
\* no other turn is touched and nothing is sent.
C24_IdleAdmitsAnything ==
    [][(~busy /\ Submits) =>
          LET s == Len(subs')
              t == Len(turns')
          IN  /\ busy'
              /\ subs'[s].fate = "admitted"
              /\ subs'[s].turn = t
              /\ t = Len(turns) + 1
              /\ turns'[t] = NewTurn(subs'[s].source, subs'[s].text, s)
              /\ handle' = t
              /\ \A u \in TurnIds : turns'[u] = turns[u]
              /\ outbox' = outbox
              /\ grace' = grace
      ]_vars

\* C24 witness: the text "stop" and a scheduler job, each submitted while
\* the session was idle, were both admitted, and no busy or interrupted
\* notice has been sent.
C24_Witness ==
    /\ \E s \in SubIds : subs[s].fate = "admitted" /\ subs[s].text = STOP
    /\ \E s \in SubIds : subs[s].fate = "admitted" /\ subs[s].source = SCHEDULER
    /\ \A i \in 1..Len(outbox) : outbox[i].kind \notin {"busy", "interrupted"}

\* A submit call is rejected as busy in this step.
RejectsBusy == Submits /\ subs'[Len(subs')].fate = "busy"

WithTarget(source) ==
    {t \in TurnIds : turns[t].source = source /\ turns[t].target # None}

\* C26: activeTargets has an entry for exactly the sources from which a
\* turn with a target was admitted, and the entry is the target of the
\* latest such turn; turns without a target, turns of other sources and
\* rejected submissions leave it as it is.
C26_LastWriteWins ==
    /\ \A source \in DOMAIN activeTargets : WithTarget(source) # {}
    /\ \A source \in TargetSources :
          WithTarget(source) # {} =>
              /\ source \in DOMAIN activeTargets
              /\ activeTargets[source] = turns[Max(WithTarget(source))].target

\* C26 witness: Telegram turns were admitted from chat 42 and then from
\* chat 43, and a line was rejected as busy since; the entry is 43.
C26_Witness ==
    /\ Len(turns) = 2
    /\ turns[1].source = "telegram" /\ turns[1].target = "42"
    /\ turns[2].source = "telegram" /\ turns[2].target = "43"
    /\ \E s \in BusySubs : subs[s].source = "ipc_1"
    /\ activeTargets["telegram"] = "43"

\* C27, as claimed: during a turn the context list only grows at its end:
\* after every step the list before the step is a prefix of the list after
\* it, whatever the number of entries stored when the turn started.
C27_AppendOnly ==
    [][/\ Len(history') >= Len(history)
       /\ SubSeq(history', 1, Len(history)) = history
      ]_vars

\* Turn t makes a tool call in this step.
ToolCallStep(t) ==
    /\ turns[t].pc = "awaiting"
    /\ turns'[t].iter = turns[t].iter + 1

\* C28, as claimed: for every tool call of a turn the Output Router is
\* handed a progress notice and then the tool's result, both for the
\* turn's source.
C28_ProgressBeforeResult ==
    [][\A t \in TurnIds :
          ToolCallStep(t) =>
              LET n == Len(outbox)
              IN  /\ Len(outbox') = n + 2
                  /\ outbox'[n + 1].kind = "progress"
                  /\ outbox'[n + 2].kind = "tool_result"
                  /\ \A i \in {n + 1, n + 2} :
                        /\ outbox'[i].turn = t
                        /\ outbox'[i].source = turns[t].source
                        /\ outbox'[i].via = "router"
      ]_vars

\* C29, as claimed: every submission of a fired job, whatever its kind,
\* has the source "scheduler", so that it is admitted when the session is
\* idle and takes the priority path when it is busy.
C29_JobsFromScheduler ==
    \A s \in SubIds :
        subs[s].text \in JobTexts =>
            /\ subs[s].source = SCHEDULER
            /\ subs[s].fate \in {"admitted", "preempt"}

\* C30, as claimed: the submission of a line read on an IPC connection has
\* the source "ipc_" followed by the connection's id, and every text sent
\* in answer to it is written on that connection and nowhere else.
C30_IpcLineOnItsConnection ==
    \A s \in SubIds :
        subs[s].text \in LineTexts =>
            /\ subs[s].source \in {IpcName(conn) : conn \in Connections}
            /\ \A i \in 1..Len(outbox) :
                  outbox[i].sub = s =>
                      outbox[i].to = {[dest |-> subs[s].source, target |-> None]}

\* C31: a reminder marked completed had its turn run to a final delivery,
\* and no turn of a fired scheduler job ended cancelled.
C31_JobsRunToFinalDelivery ==
    /\ \A T \in Tables : \A id \in 1..MaxReminders :
          tasks[T][id].status = "completed" =>
             \A s \in SubmissionsOf(T, id) :
                subs[s].turn # 0 => turns[subs[s].turn].end = "final"
    /\ \A t \in TurnIds :
          turns[t].source = SCHEDULER => turns[t].end # "cancelled"

\* C32: a reminder is submitted at most once, its status is 'completed'
\* once the loop has submitted it and moved on from its row, and a reminder
\* that is not due has not been submitted.
C32_SubmittedAtMostOnce ==
    \A T \in Tables : \A id \in 1..MaxReminders :
        /\ Cardinality(SubmissionsOf(T, id)) <= 1
        /\ (/\ SubmissionsOf(T, id) # {}
            /\ ~(loops[T].pc = "calling" /\ Head(loops[T].due_tasks) = id))
              => tasks[T][id].status = "completed"
        /\ ~tasks[T][id].due => SubmissionsOf(T, id) = {}

\* C33: an exception raised while a due reminder is processed ends neither
\* the reminder loop nor a scheduler loop: every loop is polling or
\* processing, none has stopped.
C33_LoopsSurviveExceptions ==
    \A T \in Tables :
        (\E id \in 1..MaxReminders : \E s \in SubmissionsOf(T, id) : Raised(s))
           => loops[T].pc # "dead"

\* C34: what a handled scheduled event sends and stores as the assistant
\* reply is a final answer, never an output that parsed as a tool call.
C34_EventSendsFinalAnswer ==
    event.pc = "done" =>
       /\ ~IsToolCall(event.sent)
       /\ history[Len(history)].kind # "tool_call"

\* C35: no scheduler loop began a run_iteration while the shutdown event
\* was set, and once stop has run cancel() was called on every task of
\* running_tasks.
C35_NoIterationAfterShutdown ==
    /\ \A x \in DOMAIN daemon.running_tasks :
          ~daemon.running_tasks[x].late
    /\ daemon.main = "stopped" =>
          \A x \in RunningTasks : daemon.running_tasks[x].cancelReq

\* C36: the child spawned by `start --daemon` never exits as "already
\* running" on reading its own PID in the PID file.
C36_ChildNeverTakesItselfForRunning ==
    ~(launcher.child = "already_running" /\ launcher.seen = "pid_child")

C38_ContextWithinLimits ==
    context.last = "add_message" =>
       /\ Len(context.messages) <= context.max_messages_limit
       /\ Len(history) <= max_history_limit
       /\ Len(context.messages) <= Len(history)
       /\ context.messages =
             SubSeq(history, Len(history) - Len(context.messages) + 1,
                    Len(history))

====
